---- MODULE Spec2Model ----
(***************************************************************************)
(* Credential store of carpeta_item_3/aplicacion_item3.py: the SQLite      *)
(* table users(id, username UNIQUE, password_hash), the store functions    *)
(* init_db, get_password_hash, add_user and validate_user, and the two     *)
(* front ends that call them (the Flask views register and login, and the  *)
(* command line of the __main__ block).                                    *)
(*                                                                         *)
(* Strings are sequences of one-character strings, so that str.strip() is  *)
(* computed rather than assumed.  A password hash is the term              *)
(* method$salt$digest that werkzeug builds, with the digest a free         *)
(* constructor over (salt, password).                                      *)
(***************************************************************************)
EXTENDS Integers, Sequences, FiniteSets, TLC

\* ------------------------------------------------------------------ bounds
\* Largest number of rows the users table is allowed to grow to.
MaxRows == 2
\* Number of concurrent add_user calls (one connection each).
NumProcs == 2

\* ------------------------------------------------------------------ inputs
\* Usernames and passwords handed to the front ends (form fields or argv).
Usernames == { <<" ">>, <<"a", " ">>, <<"A">> }
Passwords == { <<>>, <<" ", "x">> }
\* Salts werkzeug's gen_salt may draw for one generate_password_hash call.
Salts == { "s1", "s2" }
Procs == 1..NumProcs

\* ------------------------------------------------------------- str.strip()
RECURSIVE LStrip(_)
LStrip(s) ==
    IF s = <<>> THEN <<>>
    ELSE IF Head(s) = " " THEN LStrip(Tail(s)) ELSE s

RECURSIVE RStrip(_)
RStrip(s) ==
    IF s = <<>> THEN <<>>
    ELSE IF s[Len(s)] = " " THEN RStrip(SubSeq(s, 1, Len(s) - 1)) ELSE s

Strip(s) == RStrip(LStrip(s))

\* Python truthiness of a str: "not u" is true exactly for the empty string.
Falsy(s) == s = <<>>

\* ------------------------------------------------------- werkzeug.security
\* Variant: the salt used for the digest is not the one embedded in the output.
GeneratePasswordHash_SaltNotEmbedded(password, salt) ==
    [method |-> "scrypt", salt |-> "", digest |-> <<"kdf", salt, password>>]

\* generate_password_hash(password): a fresh salt per call, embedded in the
\* output together with the digest of (salt, password).
GeneratePasswordHash(password, salt) ==
    [method |-> "scrypt", salt |-> salt, digest |-> <<"kdf", salt, password>>]

\* check_password_hash(pwhash, password): recompute the digest with the salt
\* stored in pwhash and compare.
CheckPasswordHash(pwhash, password) ==
    <<"kdf", pwhash.salt, password>> = pwhash.digest

\* ------------------------------------------------------------ the database
VARIABLES
    schema,          \* tables present in usuarios.db: {} or {"users"}
    users,           \* committed rows of the users table
    sqlite_sequence, \* last id handed out by AUTOINCREMENT
    server,          \* TRUE once `run` has started the Flask server
    last,            \* the front-end operation that completed last
    registered,      \* history: (username, password) of every successful add_user
    pc,              \* concurrent add_user calls: position of each caller
    args,            \* concurrent add_user calls: arguments of each caller
    pw_hash,         \* concurrent add_user calls: local pw_hash of each caller
    txn,             \* concurrent add_user calls: uncommitted view of each connection
    lock,            \* connection holding SQLite's write lock, 0 when free
    result,          \* concurrent add_user calls: how each call ended
    overlapped       \* history: callers that ran while another call for the same username was in flight

dbvars == <<schema, users, sqlite_sequence>>
seqvars == <<server, last, registered>>
concvars == <<pc, args, pw_hash, txn, lock, result, overlapped>>
vars == <<schema, users, sqlite_sequence, server, last, registered,
          pc, args, pw_hash, txn, lock, result, overlapped>>

\* The database file as one value, as a connection sees it.
DB == [schema |-> schema, users |-> users, seq |-> sqlite_sequence]

Lower(s) == [k \in 1..Len(s) |-> IF s[k] = "A" THEN "a" ELSE s[k]]

\* Variant: the username column compared under COLLATE NOCASE.
UsernameEq_NoCase(a, b) == Lower(a) = Lower(b)

\* username = ? under the column's default BINARY collation.
UsernameEq(a, b) == a = b

\* Variant: DROP TABLE IF EXISTS users; CREATE TABLE users (...).
InitDb_DropCreate(db) ==
    [raised |-> "None",
     db |-> [schema |-> db.schema \cup {"users"}, users |-> {}, seq |-> 0]]

\* CREATE TABLE IF NOT EXISTS users (...); commit.
InitDb(db) ==
    IF "users" \in db.schema
    THEN [raised |-> "None", db |-> db]
    ELSE [raised |-> "None",
          db |-> [schema |-> db.schema \cup {"users"}, users |-> {}, seq |-> 0]]

\* SELECT password_hash FROM users WHERE username = ?; row[0] if row else None.
\* None is the empty sequence, a hash h is <<h>>.
GetPasswordHash(db, username) ==
    LET rows == { r \in db.users : UsernameEq(r.username, username) }
    IN  IF rows = {} THEN <<>> ELSE << (CHOOSE r \in rows : TRUE).password_hash >>

\* Variant: INSERT OR REPLACE, which deletes the conflicting row first.
Insert_OrReplace(db, username, h) ==
    [raised |-> "None",
     db |-> [schema |-> db.schema,
             users |-> { r \in db.users : r.username # username } \cup
                 { [id |-> db.seq + 1, username |-> username, password_hash |-> h] },
             seq |-> db.seq + 1]]

\* Variant: the username column declared without UNIQUE.
Insert_NoUnique(db, username, h) ==
    [raised |-> "None",
     db |-> [schema |-> db.schema,
             users |-> db.users \cup
                 { [id |-> db.seq + 1, username |-> username, password_hash |-> h] },
             seq |-> db.seq + 1]]

\* INSERT INTO users(username, password_hash) VALUES(?, ?) on a connection
\* whose view of the file is db: the UNIQUE constraint on username rejects
\* the statement, otherwise AUTOINCREMENT hands out the next id.
Insert(db, username, h) ==
    IF \E r \in db.users : UsernameEq(r.username, username)
    THEN [raised |-> "IntegrityError", db |-> db]
    ELSE [raised |-> "None",
          db |-> [schema |-> db.schema,
                  users |-> db.users \cup
                      { [id |-> db.seq + 1, username |-> username, password_hash |-> h] },
                  seq |-> db.seq + 1]]

\* Variant: on a duplicate username the stored hash is overwritten in place.
AddUser_Upsert(db, username, password, salt) ==
    LET h == GeneratePasswordHash(password, salt)
        ins == Insert(db, username, h)
    IN  IF ins.raised # "None"
        THEN [raised |-> "None",
              db |-> [schema |-> db.schema,
                      users |-> { IF r.username = username
                                  THEN [r EXCEPT !.password_hash = h] ELSE r :
                                  r \in db.users },
                      seq |-> db.seq]]
        ELSE [raised |-> "None", db |-> ins.db]

\* add_user(username, password): hash, INSERT, commit; the with-block rolls
\* the transaction back when the INSERT raises.
AddUser(db, username, password, salt) ==
    LET ins == Insert(db, username, GeneratePasswordHash(password, salt))
    IN  IF ins.raised # "None"
        THEN [raised |-> ins.raised, db |-> db]
        ELSE [raised |-> "None", db |-> ins.db]

\* validate_user(username, password): ret is the returned bool, checks the
\* number of check_password_hash calls made.
ValidateUser(db, username, password) ==
    LET h == GetPasswordHash(db, username)
    IN  IF h = <<>>
        THEN [ret |-> FALSE, checks |-> 0]
        ELSE [ret |-> CheckPasswordHash(h[1], password), checks |-> 1]

\* ------------------------------------------------------------- front ends
\* What the last completed front-end operation was and how it ended.
\*   front  the subcommand or route            method  "argv", "GET" or "POST"
\*   argc   len(sys.argv) (0 for a request)    rawU, rawP  the inputs as given
\*   fn     the store function it called       u, p    the arguments it passed
\*   ret    what that call returned or raised  checks  check_password_hash calls
\*   exit   <<status>> of the process, <<>> when no process ended
\*   out    the message printed or rendered
Op(front, method, argc, rawU, rawP, fn, u, p, ret, checks, exit, out) ==
    [front |-> front, method |-> method, argc |-> argc, rawU |-> rawU, rawP |-> rawP,
     fn |-> fn, u |-> u, p |-> p, ret |-> ret, checks |-> checks, exit |-> exit,
     out |-> out]

NoOp == Op("none", "none", 0, <<>>, <<>>, "none", <<>>, <<>>, "None", 0, <<>>, "")

\* The interpreter's exit status: 0 when the script runs to its end or calls
\* sys.exit(0), 1 when an exception reaches the top level.
ExitStatus(raised) == IF raised = "None" THEN <<0>> ELSE <<1>>

SetDb(db) ==
    /\ schema' = db.schema
    /\ users' = db.users
    /\ sqlite_sequence' = db.seq

\* A new row may be added only below the bound on the table's size.
Room(db, username) ==
    \/ Cardinality(db.users) < MaxRows
    \/ \E r \in db.users : UsernameEq(r.username, username)

\* python3 aplicacion_item3.py            (no subcommand: usage, exit 0)
CliNoArgs ==
    /\ SetDb(InitDb(DB).db)
    /\ last' = Op("cli", "argv", 1, <<>>, <<>>, "init_db", <<>>, <<>>, "None", 0,
                  <<0>>, "Uso del programa:")
    /\ UNCHANGED <<server, registered>>
    /\ UNCHANGED concvars

\* python3 aplicacion_item3.py init-db    (init_db at start-up, then again)
CliInitDb ==
    LET first == InitDb(DB)
        second == InitDb(first.db)
    IN  /\ SetDb(second.db)
        /\ last' = Op("init-db", "argv", 2, <<>>, <<>>, "init_db", <<>>, <<>>,
                      second.raised, 0, ExitStatus(second.raised),
                      IF second.raised = "None"
                      THEN "Base de datos inicializada correctamente."
                      ELSE "Traceback")
        /\ UNCHANGED <<server, registered>>
        /\ UNCHANGED concvars

\* python3 aplicacion_item3.py add-user <user> <pw>
CliAddUser(user, pw) ==
    LET db0 == InitDb(DB).db
    IN  /\ Room(db0, user)
        /\ \E salt \in Salts :
              LET r == AddUser(db0, user, pw, salt)
              IN  /\ SetDb(r.db)
                  /\ last' = Op("add-user", "argv", 4, user, pw, "add_user", user, pw,
                                r.raised, 0, ExitStatus(r.raised),
                                IF r.raised = "None" THEN "Usuario creado:"
                                ELSE "Traceback")
                  /\ registered' =
                        IF r.raised = "None"
                        THEN registered \cup { [username |-> user, password |-> pw] }
                        ELSE registered
        /\ UNCHANGED server
        /\ UNCHANGED concvars

\* python3 aplicacion_item3.py validate <user> <pw>
CliValidate(user, pw) ==
    LET db0 == InitDb(DB).db
        v == ValidateUser(db0, user, pw)
    IN  /\ SetDb(db0)
        /\ last' = Op("validate", "argv", 4, user, pw, "validate_user", user, pw,
                      IF v.ret THEN "True" ELSE "False", v.checks, <<0>>,
                      IF v.ret THEN "Credenciales validas" ELSE "Credenciales invalidas")
        /\ UNCHANGED <<server, registered>>
        /\ UNCHANGED concvars

\* add-user or validate with given < 2 arguments after the subcommand:
\* sys.argv[2] or sys.argv[3] raises IndexError before the store is called.
CliMissingArgs(cmd, given) ==
    /\ cmd \in {"add-user", "validate"}
    /\ given \in {0, 1}
    /\ SetDb(InitDb(DB).db)
    /\ last' = Op(cmd, "argv", 2 + given, <<>>, <<>>, "none", <<>>, <<>>,
                  "IndexError", 0, ExitStatus("IndexError"), "Traceback")
    /\ UNCHANGED <<server, registered>>
    /\ UNCHANGED concvars

\* A subcommand none of the branches matches: nothing after init_db.
CliUnknown ==
    /\ SetDb(InitDb(DB).db)
    /\ last' = Op("unknown", "argv", 2, <<>>, <<>>, "init_db", <<>>, <<>>, "None", 0,
                  <<0>>, "")
    /\ UNCHANGED <<server, registered>>
    /\ UNCHANGED concvars

\* python3 aplicacion_item3.py run        (app.run blocks: no exit status)
CliRun ==
    /\ ~server
    /\ SetDb(InitDb(DB).db)
    /\ server' = TRUE
    /\ last' = Op("run", "argv", 2, <<>>, <<>>, "init_db", <<>>, <<>>, "None", 0,
                  <<>>, "Servidor ejecutandose en http://localhost:5800")
    /\ UNCHANGED registered
    /\ UNCHANGED concvars

\* GET or POST /register
WebRegister(method, rawU, rawP) ==
    /\ server
    /\ method \in {"GET", "POST"}
    /\ LET u == Strip(rawU)
           p == Strip(rawP)
       IN  IF method = "GET"
           THEN /\ last' = Op("/register", method, 0, <<>>, <<>>, "none", <<>>, <<>>,
                              "None", 0, <<>>, "REGISTER_HTML:")
                /\ UNCHANGED <<dbvars, registered>>
           ELSE IF Falsy(u) \/ Falsy(p)
           THEN /\ last' = Op("/register", method, 0, rawU, rawP, "none", <<>>, <<>>,
                              "None", 0, <<>>, "REGISTER_HTML:Datos invalidos.")
                /\ UNCHANGED <<dbvars, registered>>
           ELSE /\ Room(DB, u)
                /\ \E salt \in Salts :
                      LET r == AddUser(DB, u, p, salt)
                      IN  /\ SetDb(r.db)
                          /\ last' = Op("/register", method, 0, rawU, rawP, "add_user",
                                        u, p, r.raised, 0, <<>>,
                                        IF r.raised = "None" THEN "redirect:home"
                                        ELSE "REGISTER_HTML:El usuario ya existe.")
                          /\ registered' =
                                IF r.raised = "None"
                                THEN registered \cup { [username |-> u, password |-> p] }
                                ELSE registered
    /\ UNCHANGED server
    /\ UNCHANGED concvars

\* Variant: the login view passes the form fields on without strip().
WebLogin_NoStrip(method, rawU, rawP) ==
    /\ server
    /\ method \in {"GET", "POST"}
    /\ LET v == ValidateUser(DB, rawU, rawP)
       IN  IF method = "GET"
           THEN last' = Op("/login", method, 0, <<>>, <<>>, "none", <<>>, <<>>,
                           "None", 0, <<>>, "LOGIN_HTML:")
           ELSE last' = Op("/login", method, 0, rawU, rawP, "validate_user", rawU, rawP,
                           IF v.ret THEN "True" ELSE "False", v.checks, <<>>,
                           IF v.ret THEN "OK_HTML"
                           ELSE "LOGIN_HTML:Usuario o contrasena incorrectos.")
    /\ UNCHANGED <<dbvars, server, registered>>
    /\ UNCHANGED concvars

\* GET or POST /login
WebLogin(method, rawU, rawP) ==
    /\ server
    /\ method \in {"GET", "POST"}
    /\ LET u == Strip(rawU)
           p == Strip(rawP)
           v == ValidateUser(DB, u, p)
       IN  IF method = "GET"
           THEN last' = Op("/login", method, 0, <<>>, <<>>, "none", <<>>, <<>>,
                           "None", 0, <<>>, "LOGIN_HTML:")
           ELSE last' = Op("/login", method, 0, rawU, rawP, "validate_user", u, p,
                           IF v.ret THEN "True" ELSE "False", v.checks, <<>>,
                           IF v.ret THEN "OK_HTML"
                           ELSE "LOGIN_HTML:Usuario o contrasena incorrectos.")
    /\ UNCHANGED <<dbvars, server, registered>>
    /\ UNCHANGED concvars

\* ---------------------------------------------------- concurrent add_user
\* Each caller runs add_user on its own connection: generate_password_hash,
\* then the INSERT (which opens the implicit transaction and takes SQLite's
\* write lock, waiting while another connection holds it), then commit.
\* Time is not modelled: a caller waits for the lock as long as it takes, so
\* the busy timeout of sqlite3.connect never expires here.
\* A caller's request arrives.
Call(i, username, password) ==
    /\ pc[i] = "idle"
    /\ pc' = [pc EXCEPT ![i] = "hash"]
    /\ args' = [args EXCEPT ![i] = [username |-> username, password |-> password]]
    /\ overlapped' =
          IF \E j \in Procs : j # i /\ pc[j] \in {"hash", "insert", "commit"}
                                  /\ args[j].username = username
          THEN overlapped \cup {i} \cup
                  { j \in Procs : j # i /\ pc[j] \in {"hash", "insert", "commit"}
                                        /\ args[j].username = username }
          ELSE overlapped
    /\ UNCHANGED <<pw_hash, txn, lock, result>>
    /\ UNCHANGED <<dbvars, seqvars>>

\* pw_hash = generate_password_hash(password)
HashStep(i) ==
    /\ pc[i] = "hash"
    /\ \E salt \in Salts :
          pw_hash' = [pw_hash EXCEPT ![i] = <<GeneratePasswordHash(args[i].password, salt)>>]
    /\ pc' = [pc EXCEPT ![i] = "insert"]
    /\ UNCHANGED <<args, txn, lock, result, overlapped>>
    /\ UNCHANGED <<dbvars, seqvars>>

\* cur.execute("INSERT ..."): runs once the write lock is free.  A constraint
\* violation raises IntegrityError and the with-block rolls back.
InsertStep(i) ==
    /\ pc[i] = "insert"
    /\ lock = 0
    /\ LET ins == Insert(DB, args[i].username, pw_hash[i][1])
       IN  IF ins.raised # "None"
           THEN /\ result' = [result EXCEPT ![i] = ins.raised]
                /\ pc' = [pc EXCEPT ![i] = "done"]
                /\ UNCHANGED <<txn, lock>>
           ELSE /\ txn' = [txn EXCEPT ![i] = <<ins.db>>]
                /\ lock' = i
                /\ pc' = [pc EXCEPT ![i] = "commit"]
                /\ UNCHANGED result
    /\ UNCHANGED <<args, pw_hash, overlapped>>
    /\ UNCHANGED <<dbvars, seqvars>>

\* conn.commit(): the connection's view becomes the file and the lock is released.
CommitStep(i) ==
    /\ pc[i] = "commit"
    /\ SetDb(txn[i][1])
    /\ txn' = [txn EXCEPT ![i] = <<>>]
    /\ lock' = IF lock = i THEN 0 ELSE lock
    /\ result' = [result EXCEPT ![i] = "None"]
    /\ pc' = [pc EXCEPT ![i] = "done"]
    /\ UNCHANGED <<args, pw_hash, overlapped>>
    /\ UNCHANGED seqvars

\* ------------------------------------------------------- specifications
\* usuarios.db does not exist yet; no front end has run.
Init ==
    /\ schema = {}
    /\ users = {}
    /\ sqlite_sequence = 0
    /\ server = FALSE
    /\ last = NoOp
    /\ registered = {}
    /\ pc = [i \in Procs |-> "idle"]
    /\ args = [i \in Procs |-> [username |-> <<>>, password |-> <<>>]]
    /\ pw_hash = [i \in Procs |-> <<>>]
    /\ txn = [i \in Procs |-> <<>>]
    /\ lock = 0
    /\ result = [i \in Procs |-> "pending"]
    /\ overlapped = {}

Next ==
    \/ CliNoArgs
    \/ CliInitDb
    \/ \E user \in Usernames, pw \in Passwords : CliAddUser(user, pw)
    \/ \E user \in Usernames, pw \in Passwords : CliValidate(user, pw)
    \/ \E cmd \in {"add-user", "validate"}, given \in {0, 1} : CliMissingArgs(cmd, given)
    \/ CliUnknown
    \/ CliRun
    \/ WebRegister("GET", <<>>, <<>>)
    \/ \E rawU \in Usernames, rawP \in Passwords : WebRegister("POST", rawU, rawP)
    \/ WebLogin("GET", <<>>, <<>>)
    \/ \E rawU \in Usernames, rawP \in Passwords : WebLogin("POST", rawU, rawP)

Spec == Init /\ [][Next]_vars

\* The server is up (init_db has run) and the table is empty; callers arrive.
ConcInit ==
    /\ schema = {"users"}
    /\ users = {}
    /\ sqlite_sequence = 0
    /\ server = TRUE
    /\ last = NoOp
    /\ registered = {}
    /\ pc = [i \in Procs |-> "idle"]
    /\ args = [i \in Procs |-> [username |-> <<>>, password |-> <<>>]]
    /\ pw_hash = [i \in Procs |-> <<>>]
    /\ txn = [i \in Procs |-> <<>>]
    /\ lock = 0
    /\ result = [i \in Procs |-> "pending"]
    /\ overlapped = {}

ConcNext ==
    \/ \E i \in Procs, user \in Usernames, pw \in Passwords : Call(i, user, pw)
    \/ \E i \in Procs : HashStep(i)
    \/ \E i \in Procs : InsertStep(i)
    \/ \E i \in Procs : CommitStep(i)

ConcSpec == ConcInit /\ [][ConcNext]_vars

\* ------------------------------------------------------------ properties
Pair(u, p) == [username |-> u, password |-> p]
RowsFor(u) == { r \in users : r.username = u }
\* The last operation was a completed register attempt with both arguments given.
RegisterAttempt ==
    \/ last.front = "add-user" /\ last.argc = 4
    \/ last.front = "/register" /\ last.method = "POST"
EmptyAfterTrim(s) == Falsy(Strip(s))

\* C1: for a username and a password that are both non-empty after trimming,
\* once add_user(username, password) has succeeded, validate_user with the
\* same username and password returns True, whatever else was registered,
\* validated or initialised in between.
C1_RegisterThenAuthenticate ==
    ( /\ last.fn = "validate_user"
      /\ Pair(last.u, last.p) \in registered
      /\ ~EmptyAfterTrim(last.u)
      /\ ~EmptyAfterTrim(last.p) )
    => last.ret = "True"

\* A registered valid pair was validated after a second user had been registered.
C1_Witness ==
    /\ last.fn = "validate_user"
    /\ Pair(last.u, last.p) \in registered
    /\ ~EmptyAfterTrim(last.u)
    /\ ~EmptyAfterTrim(last.p)
    /\ last.ret = "True"
    /\ \E r \in registered : r.username # last.u

\* C2: validate_user returns False, and raises nothing, for every
\* (username, password) that is not exactly a registered pair: no record for
\* that exact username, or a record registered with another password.
C2_AuthenticateRejectsOthers ==
    ( /\ last.fn = "validate_user"
      /\ Pair(last.u, last.p) \notin registered )
    => last.ret = "False"

\* A registered username was validated with a password other than its own.
C2_Witness ==
    /\ last.fn = "validate_user"
    /\ last.ret = "False"
    /\ \E r \in registered : r.username = last.u /\ r.password # last.p

\* C3: add_user for a username that already has a record raises
\* IntegrityError and changes nothing: the table is the same, with exactly
\* one row for that username; the register view then reports the duplicate.
C3_DuplicateRejected ==
    [][ ( /\ last'.fn = "add_user"
          /\ RowsFor(last'.u) # {} )
        => ( /\ last'.ret = "IntegrityError"
             /\ users' = users
             /\ sqlite_sequence' = sqlite_sequence
             /\ Cardinality({ r \in users' : r.username = last'.u }) = 1
             /\ (last'.front = "/register"
                    => last'.out = "REGISTER_HTML:El usuario ya existe.") ) ]_vars

\* A second registration of a username was attempted, with another password.
C3_Witness ==
    /\ last.fn = "add_user"
    /\ last.ret = "IntegrityError"
    /\ Cardinality(RowsFor(last.u)) = 1
    /\ Pair(last.u, last.p) \notin registered

C5_EmptyInputRejected ==
    ( /\ RegisterAttempt
      /\ (EmptyAfterTrim(last.rawU) \/ EmptyAfterTrim(last.rawP)) )
    => last.fn = "none"

\* C6: every validate_user call makes exactly one check_password_hash
\* computation, whether or not the username has a record.
C6_OneVerificationPerCall ==
    last.fn = "validate_user" => last.checks = 1

\* C7: the store is insert-and-read only: every step keeps every row as it
\* is; only add_user changes the table, and only by adding one new row.
C7_InsertAndReadOnly ==
    [][ /\ users \subseteq users'
        /\ (last'.fn # "add_user" => users' = users)
        /\ (last'.fn = "add_user"
               => \/ users' = users
                  \/ \E r \in users' : r \notin users /\ users' = users \cup {r}) ]_vars

\* Two records exist and a later operation that is not a registration ran.
C7_Witness ==
    /\ Cardinality(users) >= 2
    /\ last.fn \in {"validate_user", "init_db"}

\* C8: init_db on an existing users table raises nothing and leaves schema,
\* rows and id sequence as they are, so init-db (init_db twice in a row) ends
\* with status 0 in the state one init_db gives.
C8_InitDbIdempotent ==
    [][ last'.front = "init-db"
        => ( /\ last'.ret = "None"
             /\ last'.exit = <<0>>
             /\ ("users" \in schema => UNCHANGED dbvars)
             /\ <<schema', users', sqlite_sequence'>> =
                   <<InitDb(DB).db.schema, InitDb(DB).db.users, InitDb(DB).db.seq>> ) ]_vars

\* init-db ran on a table that already held rows.
C8_Witness ==
    /\ last.front = "init-db"
    /\ users # {}

\* C9: a command-line invocation with all its arguments present (init-db,
\* add-user <username> <password>, validate <username> <password>, or no
\* subcommand at all) ends with exit status 0.
C9_ExitZeroUnlessArgsMissing ==
    ( /\ last.method = "argv"
      /\ \/ last.front \in {"cli", "init-db"}
         \/ last.front \in {"add-user", "validate"} /\ last.argc = 4 )
    => last.exit = <<0>>

\* C10: the web views pass strip()ped fields to the store and the command
\* line passes its arguments as given; a POST to /login shows the
\* authenticated view exactly when the stripped pair is a registered pair; a
\* registered pair is accepted by the validate subcommand whatever whitespace
\* it has; and the record a web login authenticates never has surrounding
\* whitespace in its username or password.
C10_WebTrimsCliDoesNot ==
    /\ (last.front \in {"/register", "/login"} /\ last.fn # "none")
          => (last.u = Strip(last.rawU) /\ last.p = Strip(last.rawP))
    /\ (last.front \in {"add-user", "validate"} /\ last.fn # "none")
          => (last.u = last.rawU /\ last.p = last.rawP)
    /\ (last.front = "/login" /\ last.method = "POST")
          => (last.out = "OK_HTML"
                 <=> Pair(Strip(last.rawU), Strip(last.rawP)) \in registered)
    /\ (last.front = "validate" /\ last.argc = 4
            /\ Pair(last.rawU, last.rawP) \in registered)
          => last.ret = "True"
    /\ (last.front = "/login" /\ last.out = "OK_HTML")
          => \A r \in registered :
                r.username = last.u
                   => (Strip(r.username) = r.username /\ Strip(r.password) = r.password)

\* A pair registered with surrounding whitespace was posted to /login as
\* registered and was refused.
C10_Witness ==
    /\ last.front = "/login"
    /\ last.method = "POST"
    /\ Pair(last.rawU, last.rawP) \in registered
    /\ Strip(last.rawP) # last.rawP
    /\ last.out # "OK_HTML"

====
